---- MODULE Spec2Model ----
\* Model of art/src/thread.cc: the owner-tracking Mutex, Thread::Attach and
\* Thread::Create, and the ThreadList registry, run by NumNative native
\* threads that interleave at every access to shared state.
EXTENDS Integers, Sequences, FiniteSets, TLC

\* ---------------------------------------------------------------- bounds
NumNative == 2          \* native (pthread) threads
MaxThreads == 2         \* Thread objects that may be allocated
AddrSpace == 32         \* size of the (scaled) uintptr_t range
kPageSize == 4          \* scaled page size
MaxExceptions == 2      \* exception instances that may be allocated
MaxStateValue == 30     \* State values written to a stream: -MaxStateValue..MaxStateValue

\* ------------------------------------------------------------- constants
NULL == 0
EBUSY == 16
EPERM == 1
EDEADLK == 35
EINVAL == 22
EAGAIN == 11

Native == 1..NumNative
Mutexes == {"mu", "lock_"}

VARIABLES
  tls,            \* pthread_key_self_ slot of each native thread (Thread* or NULL)
  threads,        \* heap of Thread objects, indexed by Thread id
  lock_impl,      \* per Mutex: native thread holding lock_impl_, or NULL
  owner,          \* per Mutex: owner_ (Thread* or NULL)
  pc,             \* per native thread: position in the code
  op,             \* per native thread: the outermost call in progress
  arg,            \* per native thread: Thread* argument of Register/Unregister, once read
  ret,            \* per native thread: result of its last TryLock ("none" before)
  list,           \* ThreadList::list_
  destroyed,      \* ~ThreadList has completed
  aborted,        \* "" while running, else the fatal check that ended the process
  spawned,        \* native threads started by pthread_create, entry not yet run
  holds,          \* history: per Mutex, threads returned from Lock/TryLock and not yet in Unlock
  heldAtAttempt,  \* history: another thread held the mutex when TryLock was attempted
  registered,     \* history: Threads inserted by Register and not removed by Unregister
  init_result,    \* what Thread::Init returned: "true", "false" ("none" before it ran)
  init_case,      \* history: the path Thread::Init took
  nexc,           \* exception instances allocated so far
  fmt_in,         \* the State value handed to operator<<
  fmt_out         \* what operator<< wrote for it, and the kStateNames index it read

\* The state outside the Mutex, the Threads and the ThreadList.
aux == <<init_result, init_case, nexc, fmt_in, fmt_out>>

vars == <<tls, threads, lock_impl, owner, pc, op, arg, ret, list, destroyed,
          aborted, spawned, holds, heldAtAttempt, registered, aux>>

\* --------------------------------------------------------------- helpers
\* Thread::Current(): the calling native thread's slot.
Current(n) == tls[n]

\* RoundUp(x, n) of utils.h.
RoundUp(x, n) == ((x + n - 1) \div n) * n

\* The mutex a call of native thread n works on: the registry's guard in
\* Register/Unregister, the client mutex otherwise.
Mtx(n) == IF op[n] \in {"Register", "Unregister"} THEN "lock_" ELSE "mu"

ToSet(s) == {s[i] : i \in DOMAIN s}
NoDup(s) == \A i, j \in DOMAIN s : i # j => s[i] # s[j]

Running == aborted = ""

\* The state after construction, but for the State value to be written.
InitBase ==
  /\ tls = [n \in Native |-> NULL]
  /\ threads = <<>>
  /\ lock_impl = [m \in Mutexes |-> NULL]
  /\ owner = [m \in Mutexes |-> NULL]
  /\ pc = [n \in Native |-> "idle"]
  /\ op = [n \in Native |-> "none"]
  /\ arg = [n \in Native |-> NULL]
  /\ ret = [n \in Native |-> "none"]
  /\ list = <<>>
  /\ destroyed = FALSE
  /\ aborted = ""
  /\ spawned = 0
  /\ holds = [m \in Mutexes |-> {}]
  /\ heldAtAttempt = [n \in Native |-> FALSE]
  /\ registered = {}
  /\ init_result = "none"
  /\ init_case = "none"
  /\ nexc = 0
  /\ fmt_out = [text |-> <<>>, idx |-> -1]

Init == InitBase /\ fmt_in = 0

\* ------------------------------------------------------------ the Mutex
\* pthread_mutex_lock granting a mutex that another thread holds.
PthreadMutexLock_NoWait(m, n) ==
  IF lock_impl[m] = n THEN {EDEADLK} ELSE {0}

\* Outcomes of pthread_mutex_lock on a default mutex for caller n: 0 once the
\* mutex is free; no outcome (the caller waits) while another thread holds
\* it; relocking by the holder is undefined: it deadlocks or reports EDEADLK.
\* It never reports EBUSY.
PthreadMutexLock(m, n) ==
  IF lock_impl[m] = NULL THEN {0}
  ELSE IF lock_impl[m] = n THEN {EDEADLK}
  ELSE {}

\* Outcomes of pthread_mutex_unlock on a default mutex for caller n: 0 when n
\* holds it; otherwise undefined: the mutex is released all the same (0), or
\* the call reports EPERM.
PthreadMutexUnlock(m, n) ==
  IF lock_impl[m] = n THEN {0} ELSE {0, EPERM}

\* Client call of Mutex::Lock on mu.
CallLock(n) ==
  /\ Running /\ pc[n] = "idle" /\ Current(n) # NULL
  /\ pc' = [pc EXCEPT ![n] = "Lock_acquire"]
  /\ op' = [op EXCEPT ![n] = "Lock"]
  /\ ret' = [ret EXCEPT ![n] = "none"]
  /\ heldAtAttempt' = [heldAtAttempt EXCEPT ![n] = FALSE]
  /\ UNCHANGED aux
  /\ UNCHANGED <<tls, threads, lock_impl, owner, arg, list, destroyed,
                 aborted, spawned, holds, registered>>

\* Mutex::Lock, pthread_mutex_lock and CHECK_EQ(result, 0).
Lock_acquire(n) ==
  /\ Running /\ pc[n] = "Lock_acquire"
  /\ \E result \in PthreadMutexLock(Mtx(n), n) :
       IF result = 0
       THEN /\ lock_impl' = [lock_impl EXCEPT ![Mtx(n)] = n]
            /\ pc' = [pc EXCEPT ![n] = "Lock_setowner"]
            /\ UNCHANGED aborted
       ELSE /\ aborted' = "Lock:CHECK_EQ"
            /\ UNCHANGED <<lock_impl, pc>>
  /\ UNCHANGED aux
  /\ UNCHANGED <<tls, threads, owner, op, arg, ret, list, destroyed,
                 spawned, holds, heldAtAttempt, registered>>

\* Mutex::Lock, SetOwner(Thread::Current()) and return (into the body of
\* Register/Unregister when called from MutexLock's constructor).
Lock_setowner(n) ==
  /\ Running /\ pc[n] = "Lock_setowner"
  /\ owner' = [owner EXCEPT ![Mtx(n)] = Current(n)]
  /\ holds' = [holds EXCEPT ![Mtx(n)] = @ \cup {n}]
  /\ pc' = [pc EXCEPT ![n] = CASE op[n] = "Register" -> "Reg_check"
                               [] op[n] = "Unregister" -> "Unreg_check"
                               [] OTHER -> "idle"]
  /\ op' = [op EXCEPT ![n] = IF op[n] = "Lock" THEN "none" ELSE @]
  /\ UNCHANGED aux
  /\ UNCHANGED <<tls, threads, lock_impl, arg, ret, list, destroyed,
                 aborted, spawned, heldAtAttempt, registered>>

\* Client call of Mutex::TryLock on mu.
CallTryLock(n) ==
  /\ Running /\ pc[n] = "idle" /\ Current(n) # NULL
  /\ pc' = [pc EXCEPT ![n] = "TryLock_acquire"]
  /\ op' = [op EXCEPT ![n] = "TryLock"]
  /\ ret' = [ret EXCEPT ![n] = "none"]
  /\ heldAtAttempt' = [heldAtAttempt EXCEPT ![n] = lock_impl["mu"] \notin {NULL, n}]
  /\ UNCHANGED aux
  /\ UNCHANGED <<tls, threads, lock_impl, owner, arg, list, destroyed,
                 aborted, spawned, holds, registered>>

\* Mutex::TryLock, from pthread_mutex_lock to the return.
TryLock_acquire(n) ==
  /\ Running /\ pc[n] = "TryLock_acquire"
  /\ \E result \in PthreadMutexLock("mu", n) :
       IF result = EBUSY
       THEN /\ ret' = [ret EXCEPT ![n] = FALSE]
            /\ pc' = [pc EXCEPT ![n] = "idle"]
            /\ op' = [op EXCEPT ![n] = "none"]
            /\ UNCHANGED <<lock_impl, aborted>>
       ELSE IF result = 0
       THEN /\ lock_impl' = [lock_impl EXCEPT !["mu"] = n]
            /\ pc' = [pc EXCEPT ![n] = "TryLock_setowner"]
            /\ UNCHANGED <<ret, op, aborted>>
       ELSE /\ aborted' = "TryLock:CHECK_EQ"
            /\ UNCHANGED <<lock_impl, pc, ret, op>>
  /\ UNCHANGED aux
  /\ UNCHANGED <<tls, threads, owner, arg, list, destroyed, spawned, holds,
                 heldAtAttempt, registered>>

\* Mutex::TryLock, SetOwner(Thread::Current()) and return true.
TryLock_setowner(n) ==
  /\ Running /\ pc[n] = "TryLock_setowner"
  /\ owner' = [owner EXCEPT !["mu"] = Current(n)]
  /\ holds' = [holds EXCEPT !["mu"] = @ \cup {n}]
  /\ ret' = [ret EXCEPT ![n] = TRUE]
  /\ pc' = [pc EXCEPT ![n] = "idle"]
  /\ op' = [op EXCEPT ![n] = "none"]
  /\ UNCHANGED aux
  /\ UNCHANGED <<tls, threads, lock_impl, arg, list, destroyed, aborted,
                 spawned, heldAtAttempt, registered>>

\* Client call of Mutex::Unlock on mu.
CallUnlock(n) ==
  /\ Running /\ pc[n] = "idle" /\ Current(n) # NULL
  /\ pc' = [pc EXCEPT ![n] = "Unlock_check"]
  /\ op' = [op EXCEPT ![n] = "Unlock"]
  /\ ret' = [ret EXCEPT ![n] = "none"]
  /\ heldAtAttempt' = [heldAtAttempt EXCEPT ![n] = FALSE]
  /\ holds' = [holds EXCEPT !["mu"] = @ \ {n}]
  /\ UNCHANGED aux
  /\ UNCHANGED <<tls, threads, lock_impl, owner, arg, list, destroyed,
                 aborted, spawned, registered>>

\* The owner check of Mutex::Unlock.
OwnerCheck(m, n) == owner[m] = Current(n)

\* Mutex::Unlock, CHECK(GetOwner() == Thread::Current()).
Unlock_check(n) ==
  /\ Running /\ pc[n] = "Unlock_check"
  /\ IF OwnerCheck(Mtx(n), n)
     THEN /\ pc' = [pc EXCEPT ![n] = "Unlock_release"]
          /\ UNCHANGED aborted
     ELSE /\ aborted' = "Unlock:CHECK_owner"
          /\ UNCHANGED pc
  /\ UNCHANGED aux
  /\ UNCHANGED <<tls, threads, lock_impl, owner, op, arg, ret, list,
                 destroyed, spawned, holds, heldAtAttempt, registered>>

\* Mutex::Unlock, pthread_mutex_unlock and CHECK_EQ(result, 0).
Unlock_release(n) ==
  /\ Running /\ pc[n] = "Unlock_release"
  /\ \E result \in PthreadMutexUnlock(Mtx(n), n) :
       IF result = 0
       THEN /\ lock_impl' = [lock_impl EXCEPT ![Mtx(n)] = NULL]
            /\ pc' = [pc EXCEPT ![n] = "Unlock_setowner"]
            /\ UNCHANGED aborted
       ELSE /\ aborted' = "Unlock:CHECK_EQ"
            /\ UNCHANGED <<lock_impl, pc>>
  /\ UNCHANGED aux
  /\ UNCHANGED <<tls, threads, owner, op, arg, ret, list, destroyed,
                 spawned, holds, heldAtAttempt, registered>>

\* Mutex::Unlock, SetOwner(Thread::Current()) after the release, and return.
Unlock_setowner(n) ==
  /\ Running /\ pc[n] = "Unlock_setowner"
  /\ owner' = [owner EXCEPT ![Mtx(n)] = Current(n)]
  /\ pc' = [pc EXCEPT ![n] = "idle"]
  /\ op' = [op EXCEPT ![n] = "none"]
  /\ UNCHANGED aux
  /\ UNCHANGED <<tls, threads, lock_impl, arg, ret, list, destroyed, aborted,
                 spawned, holds, heldAtAttempt, registered>>

\* ----------------------------------------------------- std::list<Thread*>
\* find(list_.begin(), list_.end(), thread) != list_.end()
Present(lst, t) == \E i \in DOMAIN lst : lst[i] = t

\* list_.push_front(thread)
PushFront(lst, t) == <<t>> \o lst

\* ------------------------------------------------- Thread::Attach / Create
kNew == "New"
kRunnable == "Runnable"

\* Address of the local variable whose address Attach takes (not page
\* aligned, so that RoundUp moves it).
FrameAddrs == {kPageSize + 1}
\* Stack sizes a Runtime may be configured with, and where MemMap::Map may
\* place a region.
StackSizes == {kPageSize, 2 * kPageSize}
MapAddrs == {2 * kPageSize}
\* Values a read through the released (null) scoped_ptr may yield.
GarbageAddrs == {0, kPageSize}

\* reinterpret_cast<byte*>(-1) in the address range.
MinusOne == (0 - 1) % AddrSpace

\* A freshly constructed Thread (the constructor sets no stack, no handle).
\* via names the call that returned the object to its caller, req the stack
\* size asked of Create, published whether the object was stored in a
\* native thread's slot (history).
NewThread == [state |-> kNew, handle |-> NULL, stack_limit |-> NULL,
              stack_base |-> NULL, stack_ |-> <<>>, exception |-> NULL,
              via |-> "new", req |-> 0, published |-> FALSE]

\* Attach without `thread->state_ = kRunnable`.
AttachFields_NoState(n, addr) ==
  [NewThread EXCEPT !.stack_limit = MinusOne,
                    !.stack_base = RoundUp(addr, kPageSize) % AddrSpace,
                    !.handle = n]

\* The fields Attach assigns for native thread n whose frame lies at addr.
AttachFields(n, addr) ==
  [NewThread EXCEPT !.stack_limit = MinusOne,
                    !.stack_base = RoundUp(addr, kPageSize) % AddrSpace,
                    !.handle = n,
                    !.state = kRunnable]

\* Attach also inserting the new Thread into the ThreadList.
Attach_SelfRegister(n) ==
  /\ Running /\ pc[n] = "idle" /\ Len(threads) < MaxThreads
  /\ \E addr \in FrameAddrs :
       /\ tls' = [tls EXCEPT ![n] = Len(threads) + 1]
       /\ threads' = Append(threads,
            [AttachFields(n, addr) EXCEPT !.published = TRUE,
                                          !.via = "Attach"])
       /\ list' = PushFront(list, Len(threads) + 1)
  /\ UNCHANGED aux
  /\ UNCHANGED <<lock_impl, owner, pc, op, arg, ret, destroyed, aborted,
                 spawned, holds, heldAtAttempt, registered>>

\* Thread::Attach, run by native thread n. It touches only the new object
\* and the caller's own slot, so it is one step.
Attach(n) ==
  /\ Running /\ pc[n] = "idle" /\ Len(threads) < MaxThreads
  /\ \E addr \in FrameAddrs, err \in {0, EINVAL}, vm \in {NULL, 1} :
       IF err # 0
       THEN /\ threads' = Append(threads, AttachFields(n, addr))
            /\ aborted' = "Attach:pthread_setspecific"
            /\ UNCHANGED tls
       ELSE /\ tls' = [tls EXCEPT ![n] = Len(threads) + 1]
            /\ IF vm = NULL
               THEN /\ threads' = Append(threads,
                         [AttachFields(n, addr) EXCEPT !.published = TRUE])
                    /\ aborted' = "Attach:CHECK_vm"
               ELSE /\ threads' = Append(threads,
                         [AttachFields(n, addr) EXCEPT !.published = TRUE,
                                                       !.via = "Attach"])
                    /\ UNCHANGED aborted
  /\ UNCHANGED aux
  /\ UNCHANGED <<lock_impl, owner, pc, op, arg, ret, list, destroyed,
                 spawned, holds, heldAtAttempt, registered>>

\* MemMap::Map(size, prot): a region of the requested size, rounded up to
\* whole pages, or NULL when the mapping fails.
MemMapMap(size) ==
  {<<>>} \cup {[addr |-> a, size |-> RoundUp(size, kPageSize)] : a \in MapAddrs}

\* What new_thread's stack_limit_ and stack_base_ receive in Create:
\* stack->GetAddress() and stack->GetLimit() are read through `stack` after
\* stack.release() has set it to NULL, which is undefined: the process
\* faults (no pair), or the reads yield arbitrary values.
CreateStackBounds(region) ==
  {<<>>} \cup {<<l, b>> : l \in GarbageAddrs, b \in GarbageAddrs}

\* Thread::Create, run by native thread n with a Runtime of stack size S.
Create(n) ==
  /\ Running /\ pc[n] = "idle" /\ Len(threads) < MaxThreads
  /\ \E S \in StackSizes : \E stack \in MemMapMap(S) :
       IF stack = <<>>
       THEN /\ aborted' = "Create:failed to allocate thread stack"
            /\ UNCHANGED <<threads, spawned>>
       ELSE \E bounds \in CreateStackBounds(stack), result \in {0, EINVAL} :
              IF bounds = <<>>
              THEN /\ aborted' = "Create:null scoped_ptr"
                   /\ threads' = Append(threads,
                        [NewThread EXCEPT !.stack_ = stack, !.req = S])
                   /\ UNCHANGED spawned
              ELSE IF result # 0
              THEN /\ aborted' = "Create:CHECK_EQ"
                   /\ threads' = Append(threads,
                        [NewThread EXCEPT !.stack_ = stack, !.req = S,
                                          !.stack_limit = bounds[1],
                                          !.stack_base = bounds[2]])
                   /\ UNCHANGED spawned
              ELSE /\ spawned' = spawned + 1
                   /\ threads' = Append(threads,
                        [NewThread EXCEPT !.stack_ = stack, !.req = S,
                                          !.stack_limit = bounds[1],
                                          !.stack_base = bounds[2],
                                          !.via = "Create"])
                   /\ UNCHANGED aborted
  /\ UNCHANGED aux
  /\ UNCHANGED <<tls, lock_impl, owner, pc, op, arg, ret, list, destroyed,
                 holds, heldAtAttempt, registered>>

\* ThreadStart, the entry point of a spawned native thread.
ThreadStart ==
  /\ Running /\ spawned > 0
  /\ aborted' = "ThreadStart:UNIMPLEMENTED"
  /\ UNCHANGED aux
  /\ UNCHANGED <<tls, threads, lock_impl, owner, pc, op, arg, ret, list,
                 destroyed, spawned, holds, heldAtAttempt, registered>>

\* ------------------------------------------------------ ThrowNewException
\* thread->SetException(exception)
SetException(ths, t, exception) == [ths EXCEPT ![t].exception = exception]

\* ThrowNewException(thread, exception_class_name, msg), called by native
\* thread n for Thread t (NULL included). found tells whether the class
\* linker and the allocator delivered the class, the instance, the message
\* string and the constructor.
ThrowNewException(n, t) ==
  /\ Running /\ pc[n] = "idle" /\ nexc < MaxExceptions
  /\ \E found \in BOOLEAN :
       IF t = NULL \/ ~found
       THEN /\ aborted' = "ThrowNewException:CHECK"
            /\ UNCHANGED <<threads, nexc>>
       ELSE /\ nexc' = nexc + 1
            /\ threads' = SetException(threads, t, nexc + 1)
            /\ UNCHANGED aborted
  /\ UNCHANGED <<tls, lock_impl, owner, pc, op, arg, ret, list, destroyed,
                 spawned, holds, heldAtAttempt, registered, init_result,
                 init_case, fmt_in, fmt_out>>

\* A throw by native thread n at any Thread, or at none.
Throw(n) == \E t \in {NULL} \cup DOMAIN threads : ThrowNewException(n, t)

\* ----------------------------------------------------------- Thread::Init
\* Everything Thread::Init leaves alone.
InitFrame ==
  UNCHANGED <<tls, threads, lock_impl, owner, pc, op, arg, ret, list,
              destroyed, spawned, holds, heldAtAttempt, registered, nexc,
              fmt_in, fmt_out>>

\* Thread::Init without the double-check of the new slot.
ThreadInit_NoDoubleCheck(n) ==
  /\ Running /\ pc[n] = "idle" /\ init_result = "none" /\ threads = <<>>
  /\ \E result \in {0, EAGAIN}, slot \in {NULL, 1} :
       IF result # 0
       THEN /\ init_result' = "false"
            /\ init_case' = "pthread_key_create failed"
       ELSE /\ init_result' = "true"
            /\ init_case' = IF slot # NULL THEN "slot is not NULL" ELSE "ok"
  /\ UNCHANGED aborted
  /\ InitFrame

\* Thread::Init, run once by native thread n before any Thread exists.
\* result is what pthread_key_create reports, slot what pthread_getspecific
\* then reads for the new key.
ThreadInit(n) ==
  /\ Running /\ pc[n] = "idle" /\ init_result = "none" /\ threads = <<>>
  /\ \E result \in {0, EAGAIN}, slot \in {NULL, 1} :
       IF result # 0
       THEN /\ init_result' = "false"
            /\ init_case' = "pthread_key_create failed"
       ELSE IF slot # NULL
       THEN /\ init_result' = "false"
            /\ init_case' = "slot is not NULL"
       ELSE /\ init_result' = "true"
            /\ init_case' = "ok"
  /\ UNCHANGED aborted
  /\ InitFrame

\* ------------------------------------------------- operator<< for State
kStateNames ==
  <<"New", "Runnable", "Blocked", "Waiting", "TimedWaiting", "Native",
    "Terminated">>

\* The enumerators Thread::kNew and Thread::kTerminated.
Thread_kNew == 0
Thread_kTerminated == Thread_kNew + Len(kStateNames) - 1

StateValues == (0 - MaxStateValue)..MaxStateValue

\* operator<< with the range check excluding Thread::kNew.
FormatState_Exclusive(state) ==
  IF state > Thread_kNew /\ state <= Thread_kTerminated
  THEN [text |-> <<kStateNames[(state - Thread_kNew) + 1]>>,
        idx |-> state - Thread_kNew]
  ELSE [text |-> <<"State[", state, "]">>, idx |-> -1]

\* operator<<(std::ostream&, const Thread::State&): the text written, and
\* the (0-based) index read from kStateNames, -1 when it is not read.
FormatState(state) ==
  IF state >= Thread_kNew /\ state <= Thread_kTerminated
  THEN [text |-> <<kStateNames[(state - Thread_kNew) + 1]>>,
        idx |-> state - Thread_kNew]
  ELSE [text |-> <<"State[", state, "]">>, idx |-> -1]

\* os << state
WriteState ==
  /\ fmt_out.text = <<>>
  /\ fmt_out' = FormatState(fmt_in)
  /\ UNCHANGED <<tls, threads, lock_impl, owner, pc, op, arg, ret, list,
                 destroyed, aborted, spawned, holds, heldAtAttempt,
                 registered, init_result, init_case, nexc, fmt_in>>

\* ------------------------------------------------------------ ThreadList
\* list_.pop_front() in place of list_.remove(thread).
ListRemove_PopFront(lst, t) == Tail(lst)

\* list_.remove(thread)
ListRemove(lst, t) == SelectSeq(lst, LAMBDA x : x # t)

\* No native thread is inside Register or Unregister.
ListQuiet == \A k \in Native : op[k] \notin {"Register", "Unregister"}

\* Call of ThreadList::Register(thread) / Unregister(thread); the MutexLock
\* constructor enters Mutex::Lock on lock_. The argument is the caller's own
\* until the CHECK first reads it, so it is drawn there (arg[n]).
CallRegister(n) ==
  /\ Running /\ pc[n] = "idle" /\ Current(n) # NULL /\ ~destroyed
  /\ threads # <<>>
  /\ op' = [op EXCEPT ![n] = "Register"]
  /\ pc' = [pc EXCEPT ![n] = "Lock_acquire"]
  /\ ret' = [ret EXCEPT ![n] = "none"]
  /\ heldAtAttempt' = [heldAtAttempt EXCEPT ![n] = FALSE]
  /\ UNCHANGED aux
  /\ UNCHANGED <<tls, threads, lock_impl, owner, arg, list, destroyed,
                 aborted, spawned, holds, registered>>

CallUnregister(n) ==
  /\ Running /\ pc[n] = "idle" /\ Current(n) # NULL /\ ~destroyed
  /\ threads # <<>>
  /\ op' = [op EXCEPT ![n] = "Unregister"]
  /\ pc' = [pc EXCEPT ![n] = "Lock_acquire"]
  /\ ret' = [ret EXCEPT ![n] = "none"]
  /\ heldAtAttempt' = [heldAtAttempt EXCEPT ![n] = FALSE]
  /\ UNCHANGED aux
  /\ UNCHANGED <<tls, threads, lock_impl, owner, arg, list, destroyed,
                 aborted, spawned, holds, registered>>

\* Register without its CHECK.
Reg_check_NoCheck(n) ==
  /\ Running /\ pc[n] = "Reg_check"
  /\ \E t \in DOMAIN threads : arg' = [arg EXCEPT ![n] = t]
  /\ pc' = [pc EXCEPT ![n] = "Reg_push"]
  /\ UNCHANGED aux
  /\ UNCHANGED <<tls, threads, lock_impl, owner, op, ret, list,
                 destroyed, aborted, spawned, holds, heldAtAttempt, registered>>

\* ThreadList::Register, CHECK(find(...) == list_.end()) under the MutexLock.
Reg_check(n) ==
  /\ Running /\ pc[n] = "Reg_check"
  /\ \E t \in DOMAIN threads :
     /\ arg' = [arg EXCEPT ![n] = t]
     /\ IF ~Present(list, t)
        THEN /\ pc' = [pc EXCEPT ![n] = "Reg_push"]
             /\ UNCHANGED aborted
        ELSE /\ aborted' = "Register:CHECK"
             /\ UNCHANGED pc
  /\ UNCHANGED aux
  /\ UNCHANGED <<tls, threads, lock_impl, owner, op, ret, list,
                 destroyed, spawned, holds, heldAtAttempt, registered>>

\* ThreadList::Register, list_.push_front(thread), the last use of the
\* argument; the MutexLock destructor then enters Mutex::Unlock.
Reg_push(n) ==
  /\ Running /\ pc[n] = "Reg_push"
  /\ list' = PushFront(list, arg[n])
  /\ registered' = registered \cup {arg[n]}
  /\ arg' = [arg EXCEPT ![n] = NULL]
  /\ pc' = [pc EXCEPT ![n] = "Unlock_check"]
  /\ holds' = [holds EXCEPT !["lock_"] = @ \ {n}]
  /\ UNCHANGED aux
  /\ UNCHANGED <<tls, threads, lock_impl, owner, op, ret, destroyed,
                 aborted, spawned, heldAtAttempt>>

\* ThreadList::Unregister, CHECK(find(...) != list_.end()) under the MutexLock.
Unreg_check(n) ==
  /\ Running /\ pc[n] = "Unreg_check"
  /\ \E t \in DOMAIN threads :
     /\ arg' = [arg EXCEPT ![n] = t]
     /\ IF Present(list, t)
        THEN /\ pc' = [pc EXCEPT ![n] = "Unreg_remove"]
             /\ UNCHANGED aborted
        ELSE /\ aborted' = "Unregister:CHECK"
             /\ UNCHANGED pc
  /\ UNCHANGED aux
  /\ UNCHANGED <<tls, threads, lock_impl, owner, op, ret, list,
                 destroyed, spawned, holds, heldAtAttempt, registered>>

\* ThreadList::Unregister, list_.remove(thread), the last use of the
\* argument; the MutexLock destructor then enters Mutex::Unlock.
Unreg_remove(n) ==
  /\ Running /\ pc[n] = "Unreg_remove"
  /\ list' = ListRemove(list, arg[n])
  /\ registered' = registered \ {arg[n]}
  /\ arg' = [arg EXCEPT ![n] = NULL]
  /\ pc' = [pc EXCEPT ![n] = "Unlock_check"]
  /\ holds' = [holds EXCEPT !["lock_"] = @ \ {n}]
  /\ UNCHANGED aux
  /\ UNCHANGED <<tls, threads, lock_impl, owner, op, ret, destroyed,
                 aborted, spawned, heldAtAttempt>>

\* The destructor without its comparison against Thread::Current().
ShutdownCheck_AnyThread(lst, cur) == Len(lst) <= 1

\* The destructor insisting on an empty list.
ShutdownCheck_EmptyOnly(lst, cur) == Len(lst) = 0

\* The second check of ~ThreadList for a destroying thread whose
\* Thread::Current() is cur: list_.size() == 0 || list_.front() == cur.
ShutdownCheck(lst, cur) == Len(lst) = 0 \/ Head(lst) = cur

\* ThreadList::~ThreadList, run by native thread n once no other thread is
\* inside the registry (the caller's obligation).
DestroyThreadList(n) ==
  /\ Running /\ pc[n] = "idle" /\ ~destroyed /\ ListQuiet
  /\ IF ~(Len(list) <= 1)
     THEN /\ aborted' = "~ThreadList:CHECK_LE"
          /\ UNCHANGED destroyed
     ELSE IF ~ShutdownCheck(list, Current(n))
     THEN /\ aborted' = "~ThreadList:CHECK"
          /\ UNCHANGED destroyed
     ELSE /\ destroyed' = TRUE
          /\ UNCHANGED aborted
  /\ UNCHANGED aux
  /\ UNCHANGED <<tls, threads, lock_impl, owner, pc, op, arg, ret, list,
                 spawned, holds, heldAtAttempt, registered>>

\* --------------------------------------------------------- specifications
\* The steps inside Mutex::Lock and Mutex::Unlock, shared by the client
\* calls on mu and by the MutexLock of Register/Unregister.
LockSteps(n) ==
  \/ Lock_acquire(n)
  \/ Lock_setowner(n)

UnlockSteps(n) ==
  \/ Unlock_check(n)
  \/ Unlock_release(n)
  \/ Unlock_setowner(n)

\* Attached threads calling Lock/TryLock/Unlock on one Mutex.
NextMutex ==
  \E n \in Native :
    \/ Attach(n)
    \/ CallLock(n)
    \/ LockSteps(n)
    \/ CallTryLock(n)
    \/ TryLock_acquire(n)
    \/ TryLock_setowner(n)
    \/ CallUnlock(n)
    \/ UnlockSteps(n)

\* Attached threads calling Register/Unregister and destroying the registry.
NextList ==
  \E n \in Native :
    \/ Attach(n)
    \/ CallRegister(n)
    \/ CallUnregister(n)
    \/ LockSteps(n)
    \/ Reg_check(n)
    \/ Reg_push(n)
    \/ Unreg_check(n)
    \/ Unreg_remove(n)
    \/ UnlockSteps(n)
    \/ DestroyThreadList(n)

\* Threads being attached and spawned.
NextThread ==
  \/ ThreadStart
  \/ \E n \in Native :
       \/ ThreadInit(n)
       \/ Attach(n)
       \/ Create(n)
       \/ Throw(n)

Next ==
  \/ NextMutex
  \/ NextList
  \/ NextThread

Spec == Init /\ [][Next]_vars
SpecMutex == Init /\ [][NextMutex]_vars
SpecList == Init /\ [][NextList]_vars
SpecThread == Init /\ [][NextThread]_vars

\* Correct use of one Mutex: each native thread attaches once, then
\* repeatedly calls Lock and, once its Lock has returned, Unlock.
AttachOnce(n) == Current(n) = NULL /\ Attach(n)
UseLock(n) == n \notin holds["mu"] /\ CallLock(n)
UseUnlock(n) == n \in holds["mu"] /\ CallUnlock(n)

NextLockUnlock ==
  \E n \in Native :
    \/ AttachOnce(n)
    \/ UseLock(n)
    \/ LockSteps(n)
    \/ UseUnlock(n)
    \/ UnlockSteps(n)

SpecLockUnlock == Init /\ [][NextLockUnlock]_vars

\* The registry in use by attached threads while another native thread, the
\* spawner, creates one Thread.
Spawner == NumNative
CreateOnce(n) == n = Spawner /\ spawned = 0 /\ Create(n)

NextRegistry ==
  \/ ThreadStart
  \/ CreateOnce(Spawner)
  \/ \E n \in Native \ {Spawner} :
       \/ AttachOnce(n)
       \/ CallRegister(n)
       \/ CallUnregister(n)
       \/ LockSteps(n)
       \/ Reg_check(n)
       \/ Reg_push(n)
       \/ Unreg_check(n)
       \/ Unreg_remove(n)
       \/ UnlockSteps(n)

SpecRegistry == Init /\ [][NextRegistry]_vars

\* Any State value being written to a stream.
InitFormat == InitBase /\ fmt_in \in StateValues
NextFormat == WriteState
SpecFormat == InitFormat /\ [][NextFormat]_vars

\* ----------------------------------------------------------------- claims
\* C1: mutual exclusion. In every reachable state at most one thread holds
\* a mutex, where a thread holds it from its return from Lock or TryLock
\* until its next call of Unlock.
C1_MutualExclusion == \A m \in Mutexes : Cardinality(holds[m]) <= 1

\* C2: TryLock never blocks. While the process runs, a thread inside
\* TryLock can always take its next step, whoever holds the mutex.
C2_TryLockNeverBlocks ==
  \A n \in Native :
    (Running /\ pc[n] = "TryLock_acquire") => ENABLED TryLock_acquire(n)

\* The step in which native thread n returns from TryLock.
TryLockReturns(n) ==
  /\ pc[n] \in {"TryLock_acquire", "TryLock_setowner"}
  /\ pc'[n] = "idle"

\* C3: TryLock result. TryLock returns false exactly when another thread
\* held the mutex at the moment of the attempt, and then changes neither the
\* holder nor the recorded owner; otherwise it returns true with the caller
\* holding the mutex and recorded as its owner.
C3_TryLockResult ==
  [][\A n \in Native : TryLockReturns(n) =>
        /\ (ret'[n] = FALSE) <=> heldAtAttempt[n]
        /\ ret'[n] = FALSE => (lock_impl' = lock_impl /\ owner' = owner)
        /\ ret'[n] = TRUE => (lock_impl'["mu"] = n /\ owner'["mu"] = Current(n))]_vars

\* C4: owner assertion. A thread that does not hold the mutex never gets
\* past the owner check of Unlock: it neither reaches the release of the
\* underlying lock nor returns.
C4_OwnerAssertion ==
  \A n \in Native :
    pc[n] \in {"Unlock_release", "Unlock_setowner"} =>
      \/ pc[n] = "Unlock_release" /\ lock_impl[Mtx(n)] = n
      \/ pc[n] = "Unlock_setowner" /\ lock_impl[Mtx(n)] # n

\* C5: ThreadList uniqueness. The registry holds exactly the Threads
\* registered and not yet unregistered, and none of them twice.
C5_Uniqueness == NoDup(list) /\ ToSet(list) = registered

C5_Witness ==
  /\ Running /\ ListQuiet /\ Len(list) = 2
  /\ \E n \in Native : pc[n] = "idle" /\ arg[n] = NULL /\ Current(n) # NULL

\* The outcome of a run of the destructor by native thread n.
DestroyAborts == aborted' # "" /\ ~destroyed'
DestroyCompletes == destroyed' /\ aborted' = ""

\* C6: shutdown invariant. Destroying the ThreadList aborts when it holds
\* more than one entry, or one entry that is not the destroying thread, and
\* completes when it is empty or holds only the destroying thread.
C6_ShutdownInvariant ==
  [][\A n \in Native : DestroyThreadList(n) =>
        IF Len(list) > 1 \/ (Len(list) = 1 /\ list[1] # Current(n))
        THEN DestroyAborts
        ELSE DestroyCompletes]_vars

C6_Witness == aborted = "~ThreadList:CHECK" /\ Len(list) = 1

\* The scenario in order: a Register into the empty list gives size 1, the
\* Unregister of its only entry empties it, and destroying the empty list
\* completes.
C7_InOrder(n) ==
  /\ (Reg_push(n) /\ list = <<>>) => Len(list') = 1
  /\ (Unreg_remove(n) /\ list = <<arg[n]>>) => list' = <<>>
  /\ (DestroyThreadList(n) /\ list = <<>>) => DestroyCompletes

\* Native thread n destroys the list while its own Thread is still the one
\* registered entry.
C7_DestroyBeforeUnregister(n) ==
  DestroyThreadList(n) /\ Current(n) # NULL /\ list = <<Current(n)>>

\* C7 as stated: the scenario in order succeeds, and destroying before the
\* unregister fails the shutdown check.
C7_Original ==
  [][\A n \in Native :
        /\ C7_InOrder(n)
        /\ C7_DestroyBeforeUnregister(n) => DestroyAborts]_vars

\* C7 amended: the scenario in order succeeds, and destroying before the
\* unregister completes as well, the one entry being the destroying thread.
C7_Amended ==
  [][\A n \in Native :
        /\ C7_InOrder(n)
        /\ C7_DestroyBeforeUnregister(n) => DestroyCompletes]_vars

C7_Witness ==
  /\ destroyed /\ Running /\ Len(list) = 1
  /\ \E n \in Native : list = <<Current(n)>>

\* C8: registry precondition failures. Register of a Thread that is present
\* and Unregister of a Thread that is absent abort, and leave the list as it
\* was.
C8_PreconditionFailures ==
  [][\A n \in Native :
        /\ (Reg_check(n) /\ Present(list, arg'[n])) =>
              (aborted' = "Register:CHECK" /\ list' = list)
        /\ (Reg_push(n) => ~Present(list, arg[n]))
        /\ (Unreg_check(n) /\ ~Present(list, arg'[n])) =>
              (aborted' = "Unregister:CHECK" /\ list' = list)
        /\ (Unreg_remove(n) => Present(list, arg[n]))]_vars

C8_Witness ==
  \E n \in Native :
    /\ aborted = "Register:CHECK" /\ pc[n] = "Reg_check"
    /\ Present(list, arg[n])

\* C9: Attach postcondition. When Attach returns on native thread n, the
\* new Thread is Runnable, its handle is n, and Thread::Current() on n is
\* the new Thread.
C9_AttachPostcondition ==
  [][\A n \in Native : (Attach(n) /\ aborted' = "") =>
        /\ Current(n)' = Len(threads')
        /\ threads'[Current(n)'].state = kRunnable
        /\ threads'[Current(n)'].handle = n]_vars

C9_Witness ==
  \E n \in Native :
    /\ Running /\ Current(n) # NULL
    /\ threads[Current(n)].via = "Attach"
    /\ threads[Current(n)].state = kRunnable
    /\ threads[Current(n)].handle = n

\* C10: stack bounds of a spawned thread. A Thread returned by Create for
\* stack size S has stack_base above stack_limit, stack_base - stack_limit
\* equal to S rounded up to whole pages, and both are the bounds of the
\* mapped region the Thread owns.
C10_StackBounds ==
  \A i \in DOMAIN threads :
    threads[i].via = "Create" =>
      /\ threads[i].stack_base > threads[i].stack_limit
      /\ threads[i].stack_base - threads[i].stack_limit
           = RoundUp(threads[i].req, kPageSize)
      /\ threads[i].stack_limit = threads[i].stack_.addr
      /\ threads[i].stack_base = threads[i].stack_.addr + threads[i].stack_.size

\* C11 as stated: Init returns false, without aborting, only when the slot
\* cannot be allocated; a newly allocated slot that is not empty ends the
\* process; otherwise Init returns true with the caller's slot empty.
C11_Original ==
  [][\A n \in Native : ThreadInit(n) =>
        /\ init_result' = "false" =>
              (init_case' = "pthread_key_create failed" /\ aborted' = "")
        /\ init_case' = "slot is not NULL" => aborted' # ""
        /\ init_case' = "ok" => (init_result' = "true" /\ Current(n)' = NULL)]_vars

\* C11 amended: Init never aborts; it returns false both when the slot
\* cannot be allocated and when the newly allocated slot is not empty, and
\* otherwise returns true with the caller's slot empty.
C11_Amended ==
  [][\A n \in Native : ThreadInit(n) =>
        /\ aborted' = ""
        /\ init_result' = "false" <=>
              init_case' \in {"pthread_key_create failed", "slot is not NULL"}
        /\ init_result' = "true" <=> init_case' = "ok"
        /\ init_result' = "true" => Current(n)' = NULL]_vars

C11_Witness ==
  init_case = "slot is not NULL" /\ init_result = "false" /\ Running

\* C12: a spawned thread self-registers. Running the entry point of a
\* thread spawned by Create leaves the process running (and only a running
\* process can publish the Thread in the lookup).
C12_SpawnedThreadRuns == [][ThreadStart => aborted' = ""]_vars

\* C13: State formatting. Each of the seven states renders to a name of its
\* own, and every value outside them renders as State[<number>] without
\* reading the name table.
C13_StateFormatting ==
  fmt_out.text # <<>> =>
    IF fmt_in \in Thread_kNew..Thread_kTerminated
    THEN /\ Len(fmt_out.text) = 1
         /\ fmt_out.idx \in 0..(Len(kStateNames) - 1)
         /\ \A s \in (Thread_kNew..Thread_kTerminated) \ {fmt_in} :
              FormatState(s).text # fmt_out.text
    ELSE /\ fmt_out.text = <<"State[", fmt_in, "]">>
         /\ fmt_out.idx = -1

C13_Witness ==
  /\ fmt_in = Thread_kTerminated + 1
  /\ fmt_out.text = <<"State[", Thread_kTerminated + 1, "]">>

\* The recorded owner of mu is the thread that holds it.
C14_OwnerIsHolder ==
  \A n \in holds["mu"] : owner["mu"] = Current(n)

\* A thread writes the owner field only while it holds the underlying lock.
C14_WritesUnderLock ==
  \A n \in Native :
    (Lock_setowner(n) \/ Unlock_setowner(n)) => lock_impl[Mtx(n)] = n

\* C14: owner tracks holder. Under correct use, whenever a thread is between
\* the return of its Lock and its call of Unlock the recorded owner is that
\* thread, and the owner field is written only by a thread that holds the
\* underlying lock.
C14_OwnerTracksHolder == []C14_OwnerIsHolder /\ [][C14_WritesUnderLock]_vars

\* C19: no spurious abort under correct use. When every Unlock is issued by
\* the thread whose own Lock last succeeded, no Unlock fails its owner check.
C19_NoSpuriousAbort == aborted # "Unlock:CHECK_owner"

\* The native threads inside the critical section of Register/Unregister.
InCritical ==
  {n \in Native : pc[n] \in {"Reg_check", "Reg_push", "Unreg_check", "Unreg_remove"}}

\* The step in which native thread n returns from Register/Unregister.
RegistryCallReturns(n) ==
  /\ op[n] \in {"Register", "Unregister"}
  /\ op'[n] = "none"

\* C15: guard-lock discipline. The list changes only in the push of a
\* Register or the removal of an Unregister by a thread that holds the guard
\* mutex, no two critical sections overlap, and a call that returns has
\* released the guard mutex.
C15_GuardLockDiscipline ==
  [][/\ list' # list =>
          \E n \in Native : /\ Reg_push(n) \/ Unreg_remove(n)
                            /\ lock_impl["lock_"] = n
     /\ \A n \in InCritical : lock_impl["lock_"] = n
     /\ Cardinality(InCritical) <= 1
     /\ \A n \in Native : RegistryCallReturns(n) => lock_impl'["lock_"] # n]_vars

C15_Witness ==
  \E n, k \in Native :
    /\ pc[n] = "Reg_push" /\ lock_impl["lock_"] = n
    /\ k # n /\ pc[k] = "Lock_acquire" /\ op[k] \in {"Register", "Unregister"}

\* The Thread objects that were stored in the slot of native thread n.
BoundTo(n) ==
  {i \in DOMAIN threads : threads[i].published /\ threads[i].handle = n}

\* C16: one Thread per native thread. The slot of a native thread is written
\* at most once and at most one Thread is bound to it, so a second Attach on
\* an attached native thread neither replaces the slot's value nor creates a
\* second Thread for it.
C16_OneThreadPerNative ==
  /\ \A n \in Native : Cardinality(BoundTo(n)) <= 1
  /\ \A n \in Native : Current(n) # NULL => BoundTo(n) = {Current(n)}

\* The Thread objects returned by Attach or Create.
Returned == {i \in DOMAIN threads : threads[i].via \in {"Attach", "Create"}}

C17_Orientation ==
  \A i \in Returned : threads[i].stack_limit < threads[i].stack_base

C17_BoundsFixed ==
  \A i \in Returned :
    /\ threads'[i].stack_limit = threads[i].stack_limit
    /\ threads'[i].stack_base = threads[i].stack_base

\* C17: stack orientation. Every Thread returned by Create or Attach has
\* stack_limit below stack_base, and neither value changes afterwards.
C17_StackOrientation == []C17_Orientation /\ [][C17_BoundsFixed]_vars

\* C18: pending exception attachment. When ThrowNewException returns, the
\* target's pending exception is the instance that call allocated, unless
\* the target already had a pending exception, which is then kept; no other
\* Thread's pending exception changes.
C18_PendingException ==
  [][\A n \in Native : \A t \in DOMAIN threads :
        (ThrowNewException(n, t) /\ aborted' = "") =>
          /\ threads'[t].exception =
               IF threads[t].exception = NULL THEN nexc' ELSE threads[t].exception
          /\ \A u \in DOMAIN threads \ {t} :
               threads'[u].exception = threads[u].exception]_vars

\* C20: Attach and Create leave the registry alone. Neither changes the
\* list or the guard mutex, and a Thread enters the list only in the push of
\* a Register of it and leaves it only in the removal of an Unregister of it.
C20_RegistryFrame ==
  [][/\ \A n \in Native : (Attach(n) \/ Create(n)) =>
          /\ list' = list
          /\ lock_impl'["lock_"] = lock_impl["lock_"]
          /\ owner'["lock_"] = owner["lock_"]
     /\ \A i \in DOMAIN threads' :
          /\ (Present(list', i) /\ ~Present(list, i)) =>
                \E n \in Native : Reg_push(n) /\ arg[n] = i
          /\ (Present(list, i) /\ ~Present(list', i)) =>
                \E n \in Native : Unreg_remove(n) /\ arg[n] = i]_vars

C20_Witness ==
  /\ Running /\ list # <<>>
  /\ \E i \in DOMAIN threads : threads[i].via = "Create" /\ ~Present(list, i)

====
